---- MODULE Spec2Model ----
(***************************************************************************)
(* Model of checks/code_review.go: the Code-Review check DoesCodeReview    *)
(* and its four heuristics IsPrReviewRequired, GithubCodeReview,           *)
(* ProwCodeReview and CommitMessageHints.                                  *)
(*                                                                         *)
(* One invocation of DoesCodeReview is modelled.  The responses of the     *)
(* GitHub client are the inputs: every fetch picks its outcome (an error   *)
(* or a payload) nondeterministically, and the elements of a listing are   *)
(* revealed one per iteration of the counting loop that ranges over it.    *)
(*                                                                         *)
(* The package "checker" (CheckResult, MakeRetryResult,                    *)
(* MakeInconclusiveResult, MakeProportionalResult, MultiCheckOr) is        *)
(* imported by code_review.go; its operators follow the design document    *)
(* (sections 3, 4.1, 4.2 and 4.4).                                         *)
(***************************************************************************)
EXTENDS Naturals, Integers, Sequences, FiniteSets

(* ----------------------------- bounds --------------------------------- *)

\* Longest listing (pull requests or commits) a fetch returns when a
\* heuristic is invoked directly.
MaxItems == 10

\* Longest listing a fetch returns when the heuristic runs as a child of
\* DoesCodeReview.
MaxNested == 2

(* --------------------------- error values ----------------------------- *)

NoErr == "nil"

\* Errors a client call can return: a transport/API fault, or the
\* cancellation/timeout of the request's context.
FetchErrs == {"transport", "cancelled"}

\* var ErrorNoReviews = errors.New("no reviews found")
ErrorNoReviews == "no reviews found"

(* ------------------- package checker (from the spec) ------------------ *)

\* Upper end of the bounded confidence range (spec section 3: 0-10).
MaxResultConfidence == 10

NoResult == [pass |-> FALSE, confidence |-> 0, class |-> "unset", cause |-> NoErr]

MakeRetryResult(cause) ==
    [pass |-> FALSE, confidence |-> 0, class |-> "retry", cause |-> cause]

MakeInconclusiveResult(cause) ==
    [pass |-> FALSE, confidence |-> 0, class |-> "inconclusive", cause |-> cause]

\* The proportional scoring rule.  th is the threshold as <<p, q>> = p/q.
\* With denominator 0 the rule is undefined: every outcome that asserts no
\* pass is possible.
MakeProportionalResult(numerator, denominator, th) ==
    IF denominator = 0
    THEN { MakeInconclusiveResult(NoErr),
           [pass |-> FALSE, confidence |-> 0, class |-> "none", cause |-> NoErr] }
    ELSE { [pass       |-> numerator * th[2] >= th[1] * denominator,
            confidence |-> (numerator * MaxResultConfidence) \div denominator,
            class      |-> "none",
            cause      |-> NoErr] }

DefinitivePass(r) == r.pass /\ r.class = "none"

\* Folding rule of the OR combinator over the results of the children that
\* were evaluated, in evaluation order.
MultiCheckOrFold(rs) ==
    LET idx    == 1..Len(rs)
        passes == {k \in idx : DefinitivePass(rs[k])}
        retrys == {k \in idx : rs[k].class = "retry"}
        incs   == {k \in idx : rs[k].class = "inconclusive"}
        Min(S) == CHOOSE k \in S : \A j \in S : k <= j
        Max(S) == CHOOSE k \in S : \A j \in S : k >= j
    IN  IF passes # {} THEN rs[Min(passes)]
        ELSE IF retrys # {} THEN rs[Min(retrys)]
        ELSE IF incs # {} THEN rs[Max(incs)]
        ELSE IF rs = <<>> THEN MakeInconclusiveResult(NoErr)
        ELSE rs[Len(rs)]

(* ------------------------------ strings ------------------------------- *)

\* strings.Contains on strings represented as sequences of characters
\* (logins) or of tokens (commit messages).
Contains(s, substr) ==
    \E k \in 0..(Len(s) - Len(substr)) :
        SubSeq(s, k + 1, k + Len(substr)) = substr

(* ------------------------- client responses --------------------------- *)

Outcomes == {NoErr} \cup FetchErrs

\* The answer of a call that was not made.
NotFetched == [err |-> "not fetched", states |-> <<>>, author |-> "", committer |-> ""]

\* PullRequests.List elements: MergedAt (nil or set) and the label names.
LabelSamples ==
    { <<>>, <<"bug">>, <<"lgtm">>, <<"approved">>,
      <<"bug", "approved">>, <<"lgtm", "approved">> }

PullRequests == [merged : BOOLEAN, labels : LabelSamples]

\* PullRequests.ListReviews responses: an error, or the review states.
ReviewSamples ==
    { <<>>, <<"COMMENTED">>, <<"APPROVED">>,
      <<"CHANGES_REQUESTED", "APPROVED">>, <<"APPROVED", "APPROVED">> }

ReviewResponses ==
    [err : FetchErrs, states : {<<>>}] \cup [err : {NoErr}, states : ReviewSamples]

\* Repositories.GetCommit responses: an error, or the logins of the author
\* and the committer ("" when the user is absent).
MergeLogins == {"", "alice", "bob"}

CommitResponses ==
    [err : FetchErrs, author : {""}, committer : {""}]
        \cup [err : {NoErr}, author : MergeLogins, committer : MergeLogins]

\* Repositories.ListCommits elements: the committer's login, as a sequence
\* of characters, and the commit message, as a sequence of tokens.
CommitterSamples ==
    { <<>>,
      <<"a", "l">>,
      <<"b", "o">>,
      <<"k", "b", "o", "t">>,
      <<"g", "a", "r", "d", "e", "n", "e", "r">> }

NL == "\n"
ReviewedOn == "Reviewed-on: "
ReviewedBy == "Reviewed-by: "

MessageSamples ==
    { <<"fix">>,
      <<"fix", NL, ReviewedOn, "u", NL, ReviewedBy, "r">>,
      <<"fix", NL, ReviewedBy, "r", NL, ReviewedOn, "u">>,
      <<"fix", NL, ReviewedOn, "u">>,
      <<ReviewedOn, "u", NL, ReviewedBy, "r">> }

Commits == [committer : CommitterSamples, message : MessageSamples]

\* Repositories.GetBranchProtection payload: whether
\* RequiredPullRequestReviews is set, and its RequiredApprovingReviewCount.
Protections ==
    [hasReviews : {FALSE}, count : {0}] \cup [hasReviews : {TRUE}, count : 0..2]

(* ------------------------ checks/code_review.go ----------------------- *)

\* Variant of Children: the pull-request sampling is listed before the
\* branch-protection check.
Children_SamplingFirst ==
    << "GithubCodeReview", "IsPrReviewRequired", "ProwCodeReview", "CommitMessageHints" >>

\* The children of DoesCodeReview, in the order they are handed to
\* MultiCheckOr.
Children ==
    << "IsPrReviewRequired", "GithubCodeReview", "ProwCodeReview", "CommitMessageHints" >>

\* The threshold .75 of the three sampling heuristics, as <<3, 4>> = 3/4.
Threshold == <<3, 4>>

\* const confidence = 5
confidence == 5

NoCall == [called |-> FALSE, numerator |-> 0, denominator |-> 0, threshold |-> <<0, 1>>]

ScoreCall(numerator, denominator, th) ==
    [called |-> TRUE, numerator |-> numerator, denominator |-> denominator, threshold |-> th]

\* Variant of IsPrReviewRequired: the count is compared with > 1, not >= 1.
IsPrReviewRequired_StrictCount(repoErr, bpErr, bp) ==
    IF repoErr # NoErr THEN MakeRetryResult(repoErr)
    ELSE IF bpErr # NoErr THEN MakeInconclusiveResult(bpErr)
    ELSE IF bp.hasReviews /\ bp.count > 1
         THEN [pass |-> TRUE, confidence |-> confidence, class |-> "none", cause |-> NoErr]
         ELSE MakeInconclusiveResult(NoErr)

\* Variant of IsPrReviewRequired: an unreadable branch protection is
\* reported like an unreadable repository, as retryable.
IsPrReviewRequired_RetryOnProtection(repoErr, bpErr, bp) ==
    IF repoErr # NoErr THEN MakeRetryResult(repoErr)
    ELSE IF bpErr # NoErr THEN MakeRetryResult(bpErr)
    ELSE IF bp.hasReviews /\ bp.count >= 1
         THEN [pass |-> TRUE, confidence |-> confidence, class |-> "none", cause |-> NoErr]
         ELSE MakeInconclusiveResult(NoErr)

\* IsPrReviewRequired, as a function of what Repositories.Get and
\* Repositories.GetBranchProtection answer.
IsPrReviewRequired(repoErr, bpErr, bp) ==
    IF repoErr # NoErr THEN MakeRetryResult(repoErr)
    ELSE IF bpErr # NoErr THEN MakeInconclusiveResult(bpErr)
    ELSE IF bp.hasReviews /\ bp.count >= 1
         THEN [pass |-> TRUE, confidence |-> confidence, class |-> "none", cause |-> NoErr]
         ELSE MakeInconclusiveResult(NoErr)

\* GithubCodeReview: the return taken when PullRequests.List fails.
GithubCodeReviewListError(err) == MakeInconclusiveResult(err)

FoundApprovedReview(states) == \E k \in 1..Len(states) : states[k] = "APPROVED"

DifferentCommitter(cm) ==
    cm.author # "" /\ cm.committer # "" /\ cm.author # cm.committer

\* Variant of GithubCodeReviewBody: the merge commit is consulted also when
\* an APPROVED review was found (the foundApprovedReview guard is missing).
GithubCodeReviewBody_DoubleCount(pr, rv, cm, tm, tr) ==
    IF ~pr.merged
    THEN [totalMerged |-> tm, totalReviewed |-> tr,
          reviews |-> NotFetched, commit |-> NotFetched]
    ELSE IF rv.err # NoErr
    THEN [totalMerged |-> tm + 1, totalReviewed |-> tr,
          reviews |-> rv, commit |-> NotFetched]
    ELSE LET a == IF FoundApprovedReview(rv.states) THEN 1 ELSE 0
             c == IF cm.err = NoErr /\ DifferentCommitter(cm) THEN 1 ELSE 0
         IN  [totalMerged |-> tm + 1, totalReviewed |-> tr + a + c,
              reviews |-> rv, commit |-> cm]

\* Variant of GithubCodeReviewBody: the logins are only compared, not
\* tested for being non-empty.
GithubCodeReviewBody_EmptyLogin(pr, rv, cm, tm, tr) ==
    IF ~pr.merged
    THEN [totalMerged |-> tm, totalReviewed |-> tr,
          reviews |-> NotFetched, commit |-> NotFetched]
    ELSE IF rv.err # NoErr
    THEN [totalMerged |-> tm + 1, totalReviewed |-> tr,
          reviews |-> rv, commit |-> NotFetched]
    ELSE IF FoundApprovedReview(rv.states)
    THEN [totalMerged |-> tm + 1, totalReviewed |-> tr + 1,
          reviews |-> rv, commit |-> NotFetched]
    ELSE IF cm.err = NoErr /\ cm.author # cm.committer
    THEN [totalMerged |-> tm + 1, totalReviewed |-> tr + 1,
          reviews |-> rv, commit |-> cm]
    ELSE [totalMerged |-> tm + 1, totalReviewed |-> tr,
          reviews |-> rv, commit |-> cm]

\* GithubCodeReview: one iteration of the loop over the pull requests.  rv
\* and cm are what ListReviews and GetCommit answer if they are called; the
\* result records the counters and the answers that were actually fetched.
GithubCodeReviewBody(pr, rv, cm, tm, tr) ==
    IF ~pr.merged
    THEN [totalMerged |-> tm, totalReviewed |-> tr,
          reviews |-> NotFetched, commit |-> NotFetched]
    ELSE IF rv.err # NoErr
    THEN [totalMerged |-> tm + 1, totalReviewed |-> tr,
          reviews |-> rv, commit |-> NotFetched]
    ELSE IF FoundApprovedReview(rv.states)
    THEN [totalMerged |-> tm + 1, totalReviewed |-> tr + 1,
          reviews |-> rv, commit |-> NotFetched]
    ELSE IF cm.err = NoErr /\ DifferentCommitter(cm)
    THEN [totalMerged |-> tm + 1, totalReviewed |-> tr + 1,
          reviews |-> rv, commit |-> cm]
    ELSE [totalMerged |-> tm + 1, totalReviewed |-> tr,
          reviews |-> rv, commit |-> cm]

\* GithubCodeReview: the return after the loop.
GithubCodeReviewReturn(tm, tr) ==
    [call    |-> ScoreCall(tr, tm, Threshold),
     results |-> MakeProportionalResult(tr, tm, Threshold)]

\* ProwCodeReview: the return taken when PullRequests.List fails.
ProwCodeReviewListError(err) == MakeInconclusiveResult(err)

HasProwLabel(labels) ==
    \E k \in 1..Len(labels) : labels[k] = "lgtm" \/ labels[k] = "approved"

\* ProwCodeReview: one iteration of the loop over the pull requests.
ProwCodeReviewBody(pr, tm, tr) ==
    IF ~pr.merged
    THEN [totalMerged |-> tm, totalReviewed |-> tr]
    ELSE [totalMerged |-> tm + 1,
          totalReviewed |-> IF HasProwLabel(pr.labels) THEN tr + 1 ELSE tr]

\* Variant of ProwCodeReviewReturn: inconclusive only for an empty
\* population, the scoring rule otherwise.
ProwCodeReviewReturn_GuardOnMerged(tm, tr) ==
    IF tm = 0
    THEN [call |-> NoCall, results |-> {MakeInconclusiveResult(ErrorNoReviews)}]
    ELSE [call    |-> ScoreCall(tr, tm, Threshold),
          results |-> MakeProportionalResult(tr, tm, Threshold)]

\* ProwCodeReview: the return after the loop.
ProwCodeReviewReturn(tm, tr) ==
    IF tr = 0
    THEN [call |-> NoCall, results |-> {MakeInconclusiveResult(ErrorNoReviews)}]
    ELSE [call    |-> ScoreCall(tr, tm, Threshold),
          results |-> MakeProportionalResult(tr, tm, Threshold)]

\* Variant of CommitMessageHintsListError: the failed fetch is reported as
\* inconclusive, and its cause is dropped.
CommitMessageHintsListError_Inconclusive(err) == MakeInconclusiveResult(NoErr)

\* CommitMessageHints: the return taken when Repositories.ListCommits fails.
CommitMessageHintsListError(err) == MakeRetryResult(err)

IsBot(committer) ==
    \E substring \in { <<"b", "o", "t">>, <<"g", "a", "r", "d", "e", "n", "e", "r">> } :
        Contains(committer, substring)

HasReviewTrailers(message) ==
    /\ Contains(message, <<NL, ReviewedOn>>)
    /\ Contains(message, <<NL, ReviewedBy>>)

\* CommitMessageHints: one iteration of the loop over the commits.
CommitMessageHintsBody(commit, total, tr) ==
    IF IsBot(commit.committer)
    THEN [totalMerged |-> total, totalReviewed |-> tr]
    ELSE [totalMerged |-> total + 1,
          totalReviewed |-> IF HasReviewTrailers(commit.message) THEN tr + 1 ELSE tr]

\* CommitMessageHints: the return after the loop.
CommitMessageHintsReturn(total, tr) ==
    IF tr = 0
    THEN [call |-> NoCall, results |-> {MakeInconclusiveResult(ErrorNoReviews)}]
    ELSE [call    |-> ScoreCall(tr, total, Threshold),
          results |-> MakeProportionalResult(tr, total, Threshold)]

(* ------------------------------- state -------------------------------- *)

VARIABLES
    mode,           \* "combinator": DoesCodeReview runs; "direct": one heuristic is called
    child,          \* index in Children of the heuristic that runs
    pc,             \* "call", "loop", "returned" (a heuristic has returned), "done"
    results,        \* the Results the heuristics returned so far, in order
    final,          \* the Result of DoesCodeReview, once pc = "done"
    totalMerged,    \* totalMerged (total in CommitMessageHints) of the running heuristic
    totalReviewed,  \* totalReviewed of the running heuristic
    n,              \* elements of the listing consumed by the counting loop
    item,           \* what the last iteration (or IsPrReviewRequired) was answered
    issued,         \* the client calls issued since the invocation began
    lastFetch,      \* the last client call and its error
    fetchFailed,    \* a per-pull-request fetch of the running heuristic failed
    scoreCall,      \* the call of MakeProportionalResult by the running heuristic
    ran             \* the heuristics that were started, in order

vars ==
    << mode, child, pc, results, final, totalMerged, totalReviewed, n, item,
       issued, lastFetch, fetchFailed, scoreCall, ran >>

NoItem == [kind |-> "none"]

NoFetch == [kind |-> "none", err |-> NoErr]

Cur == Children[child]

Last(s) == s[Len(s)]

Limit == IF mode = "direct" THEN MaxItems ELSE MaxNested

Init ==
    /\ mode \in {"combinator", "direct"}
    /\ child \in (IF mode = "combinator" THEN {1} ELSE 1..Len(Children))
    /\ pc = "call"
    /\ results = <<>>
    /\ final = NoResult
    /\ totalMerged = 0
    /\ totalReviewed = 0
    /\ n = 0
    /\ item = NoItem
    /\ issued = {}
    /\ lastFetch = NoFetch
    /\ fetchFailed = FALSE
    /\ scoreCall = NoCall
    /\ ran = <<>>

\* Entry of a heuristic: its locals are fresh.
Enter(name) ==
    /\ pc = "call"
    /\ Cur = name
    /\ ran' = Append(ran, name)
    /\ totalMerged' = 0
    /\ totalReviewed' = 0
    /\ n' = 0
    /\ fetchFailed' = FALSE
    /\ scoreCall' = NoCall
    /\ UNCHANGED << mode, child, final >>

(* ------------------------------ actions ------------------------------- *)

\* IsPrReviewRequired, whole: Repositories.Get, then (if that succeeded)
\* Repositories.GetBranchProtection of the default branch.
CallIsPrReviewRequired ==
    /\ Enter("IsPrReviewRequired")
    /\ \E repoErr \in Outcomes, bpErr \in Outcomes, bp \in Protections :
          \* what is never read has one value
          /\ repoErr # NoErr => bpErr = NoErr
          /\ (repoErr # NoErr \/ bpErr # NoErr) => bp = [hasReviews |-> FALSE, count |-> 0]
          /\ results' = Append(results, IsPrReviewRequired(repoErr, bpErr, bp))
          /\ item' = [kind |-> "repo",
                      repoErr |-> repoErr,
                      bpErr |-> IF repoErr # NoErr THEN "not fetched" ELSE bpErr,
                      bp |-> bp]
          /\ issued' = issued \cup
                (IF repoErr # NoErr
                 THEN {"Repositories.Get"}
                 ELSE {"Repositories.Get", "Repositories.GetBranchProtection"})
          /\ lastFetch' =
                IF repoErr # NoErr
                THEN [kind |-> "Repositories.Get", err |-> repoErr]
                ELSE [kind |-> "Repositories.GetBranchProtection", err |-> bpErr]
    /\ pc' = "returned"

\* GithubCodeReview up to the loop: PullRequests.List of the closed pull requests.
GithubCodeReviewList ==
    /\ Enter("GithubCodeReview")
    /\ \E err \in Outcomes :
          /\ lastFetch' = [kind |-> "PullRequests.List", err |-> err]
          /\ IF err # NoErr
             THEN /\ results' = Append(results, GithubCodeReviewListError(err))
                  /\ pc' = "returned"
             ELSE /\ results' = results
                  /\ pc' = "loop"
    /\ issued' = issued \cup {"PullRequests.List"}
    /\ item' = NoItem

\* GithubCodeReview: one iteration of the loop, for the next pull request.
GithubCodeReviewNext ==
    /\ pc = "loop"
    /\ Cur = "GithubCodeReview"
    /\ n < Limit
    /\ \E pr \in [merged : BOOLEAN, labels : {<<>>}],
          rv \in ReviewResponses, cm \in CommitResponses :
          LET b == GithubCodeReviewBody(pr, rv, cm, totalMerged, totalReviewed) IN
          /\ totalMerged' = b.totalMerged
          /\ totalReviewed' = b.totalReviewed
          /\ item' = [kind |-> "github-pr", pr |-> pr, reviews |-> b.reviews, commit |-> b.commit]
          /\ issued' = issued
                \cup (IF b.reviews # NotFetched THEN {"PullRequests.ListReviews"} ELSE {})
                \cup (IF b.commit # NotFetched THEN {"Repositories.GetCommit"} ELSE {})
          /\ lastFetch' =
                IF b.commit # NotFetched
                THEN [kind |-> "Repositories.GetCommit", err |-> b.commit.err]
                ELSE IF b.reviews # NotFetched
                THEN [kind |-> "PullRequests.ListReviews", err |-> b.reviews.err]
                ELSE lastFetch
          /\ fetchFailed' = (fetchFailed \/ b.reviews.err \in FetchErrs
                                         \/ b.commit.err \in FetchErrs)
    /\ n' = n + 1
    /\ UNCHANGED << mode, child, pc, results, final, scoreCall, ran >>

\* GithubCodeReview: the listing is exhausted, the verdict is returned.
GithubCodeReviewDone ==
    /\ pc = "loop"
    /\ Cur = "GithubCodeReview"
    /\ LET ret == GithubCodeReviewReturn(totalMerged, totalReviewed) IN
          /\ scoreCall' = ret.call
          /\ \E r \in ret.results : results' = Append(results, r)
    /\ pc' = "returned"
    /\ UNCHANGED << mode, child, final, totalMerged, totalReviewed, n, item,
                    issued, lastFetch, fetchFailed, ran >>

\* ProwCodeReview up to the loop: PullRequests.List of the closed pull requests.
ProwCodeReviewList ==
    /\ Enter("ProwCodeReview")
    /\ \E err \in Outcomes :
          /\ lastFetch' = [kind |-> "PullRequests.List", err |-> err]
          /\ IF err # NoErr
             THEN /\ results' = Append(results, ProwCodeReviewListError(err))
                  /\ pc' = "returned"
             ELSE /\ results' = results
                  /\ pc' = "loop"
    /\ issued' = issued \cup {"PullRequests.List"}
    /\ item' = NoItem

\* ProwCodeReview: one iteration of the loop, for the next pull request.
ProwCodeReviewNext ==
    /\ pc = "loop"
    /\ Cur = "ProwCodeReview"
    /\ n < Limit
    /\ \E pr \in PullRequests :
          LET b == ProwCodeReviewBody(pr, totalMerged, totalReviewed) IN
          /\ totalMerged' = b.totalMerged
          /\ totalReviewed' = b.totalReviewed
          /\ item' = [kind |-> "prow-pr", pr |-> pr]
    /\ n' = n + 1
    /\ UNCHANGED << mode, child, pc, results, final, issued, lastFetch,
                    fetchFailed, scoreCall, ran >>

\* ProwCodeReview: the listing is exhausted, the verdict is returned.
ProwCodeReviewDone ==
    /\ pc = "loop"
    /\ Cur = "ProwCodeReview"
    /\ LET ret == ProwCodeReviewReturn(totalMerged, totalReviewed) IN
          /\ scoreCall' = ret.call
          /\ \E r \in ret.results : results' = Append(results, r)
    /\ pc' = "returned"
    /\ UNCHANGED << mode, child, final, totalMerged, totalReviewed, n, item,
                    issued, lastFetch, fetchFailed, ran >>

\* CommitMessageHints up to the loop: Repositories.ListCommits.
CommitMessageHintsList ==
    /\ Enter("CommitMessageHints")
    /\ \E err \in Outcomes :
          /\ lastFetch' = [kind |-> "Repositories.ListCommits", err |-> err]
          /\ IF err # NoErr
             THEN /\ results' = Append(results, CommitMessageHintsListError(err))
                  /\ pc' = "returned"
             ELSE /\ results' = results
                  /\ pc' = "loop"
    /\ issued' = issued \cup {"Repositories.ListCommits"}
    /\ item' = NoItem

\* CommitMessageHints: one iteration of the loop, for the next commit.
CommitMessageHintsNext ==
    /\ pc = "loop"
    /\ Cur = "CommitMessageHints"
    /\ n < Limit
    /\ \E commit \in Commits :
          LET b == CommitMessageHintsBody(commit, totalMerged, totalReviewed) IN
          /\ totalMerged' = b.totalMerged
          /\ totalReviewed' = b.totalReviewed
          /\ item' = [kind |-> "commit", commit |-> commit]
    /\ n' = n + 1
    /\ UNCHANGED << mode, child, pc, results, final, issued, lastFetch,
                    fetchFailed, scoreCall, ran >>

\* CommitMessageHints: the listing is exhausted, the verdict is returned.
CommitMessageHintsDone ==
    /\ pc = "loop"
    /\ Cur = "CommitMessageHints"
    /\ LET ret == CommitMessageHintsReturn(totalMerged, totalReviewed) IN
          /\ scoreCall' = ret.call
          /\ \E r \in ret.results : results' = Append(results, r)
    /\ pc' = "returned"
    /\ UNCHANGED << mode, child, final, totalMerged, totalReviewed, n, item,
                    issued, lastFetch, fetchFailed, ran >>

\* MultiCheckOr, one turn of its loop after a child returned: stop on a
\* definitive pass or after the last child, else go on to the next child.
MultiCheckOrStep ==
    /\ mode = "combinator"
    /\ pc = "returned"
    /\ IF DefinitivePass(Last(results)) \/ child = Len(Children)
       THEN /\ final' = MultiCheckOrFold(results)
            /\ pc' = "done"
            /\ child' = child
       ELSE /\ final' = final
            /\ pc' = "call"
            /\ child' = child + 1
    /\ UNCHANGED << mode, results, totalMerged, totalReviewed, n, item, issued,
                    lastFetch, fetchFailed, scoreCall, ran >>

Next ==
    \/ CallIsPrReviewRequired
    \/ GithubCodeReviewList
    \/ GithubCodeReviewNext
    \/ GithubCodeReviewDone
    \/ ProwCodeReviewList
    \/ ProwCodeReviewNext
    \/ ProwCodeReviewDone
    \/ CommitMessageHintsList
    \/ CommitMessageHintsNext
    \/ CommitMessageHintsDone
    \/ MultiCheckOrStep

Spec == Init /\ [][Next]_vars

(* ------------------------------ properties ---------------------------- *)

ListingKinds == {"Repositories.Get", "PullRequests.List", "Repositories.ListCommits"}

Sampling == {"GithubCodeReview", "ProwCodeReview", "CommitMessageHints"}

\* A heuristic has just returned: Cur names it, Last(results) is its Result.
Returned == pc = "returned"

\* The listing (or repository metadata) fetch of the heuristic that has just
\* returned failed: it is then the last fetch that heuristic issued.
ListingFailed == lastFetch.kind \in ListingKinds /\ lastFetch.err \in FetchErrs

\* C1: whenever the listing fetch of a heuristic (Repositories.Get of
\* IsPrReviewRequired, PullRequests.List of GithubCodeReview and
\* ProwCodeReview, Repositories.ListCommits of CommitMessageHints) returns an
\* error, the heuristic returns a Result classified retryable.
C1_ListingErrorIsRetryable ==
    (Returned /\ ListingFailed) => Last(results).class = "retry"

\* C2: whenever a per-pull-request fetch of GithubCodeReview (ListReviews or
\* GetCommit) returns an error, GithubCodeReview returns a Result classified
\* retryable and the scoring rule is not applied to the partial counts.
C2_PerPullRequestErrorIsRetryable ==
    (Returned /\ Cur = "GithubCodeReview" /\ fetchFailed)
        => (Last(results).class = "retry" /\ ~scoreCall.called)

\* C3: a sampling heuristic whose listing was fetched and whose eligible
\* population is empty returns inconclusive, and the scoring rule is never
\* called with denominator 0.
C3_EmptyPopulationIsInconclusive ==
    /\ (Returned /\ Cur \in Sampling /\ ~ListingFailed /\ totalMerged = 0)
          => Last(results).class = "inconclusive"
    /\ scoreCall.called => scoreCall.denominator > 0

\* The repository and the branch protection were both read and at least one
\* approving review is required.
ReviewRequiredObserved ==
    /\ Returned
    /\ Cur = "IsPrReviewRequired"
    /\ item.kind = "repo"
    /\ item.repoErr = NoErr
    /\ item.bpErr = NoErr
    /\ item.bp.hasReviews
    /\ item.bp.count >= 1

C5_OrderAndShortCircuit ==
    mode = "combinator" =>
        /\ ran = SubSeq(<< "IsPrReviewRequired", "GithubCodeReview",
                           "ProwCodeReview", "CommitMessageHints" >>, 1, Len(ran))
        /\ (Len(results) >= 1 /\ DefinitivePass(results[1])) =>
              /\ Len(ran) = 1
              /\ issued = {"Repositories.Get", "Repositories.GetBranchProtection"}
              /\ pc \in {"returned", "done"}
              /\ pc = "done" => final = results[1]

C5_Witness ==
    /\ mode = "combinator"
    /\ pc = "done"
    /\ ran = << "IsPrReviewRequired" >>
    /\ DefinitivePass(final)

\* C6: when the repository is read but reading the branch protection fails,
\* IsPrReviewRequired returns a Result classified inconclusive that asserts
\* no pass.
C6_UnreadableProtectionIsInconclusive ==
    (Returned /\ Cur = "IsPrReviewRequired" /\ item.kind = "repo"
        /\ item.repoErr = NoErr /\ item.bpErr \in FetchErrs)
    => (Last(results).class = "inconclusive" /\ ~Last(results).pass)

C6_Witness ==
    /\ Returned
    /\ Cur = "IsPrReviewRequired"
    /\ item.kind = "repo"
    /\ item.repoErr = NoErr
    /\ item.bpErr = "cancelled"

FirstRetry(rs) ==
    CHOOSE k \in 1..Len(rs) :
        /\ rs[k].class = "retry"
        /\ \A j \in 1..(k - 1) : rs[j].class # "retry"

\* C7: when Repositories.ListCommits fails, CommitMessageHints returns a
\* retryable Result whose cause is that error; and when no child of
\* DoesCodeReview returned a definitive pass and some child returned
\* retryable, DoesCodeReview returns the first retryable Result.
C7_RetryablePropagates ==
    /\ (Returned /\ Cur = "CommitMessageHints" /\ ListingFailed)
          => Last(results) = [pass |-> FALSE, confidence |-> 0,
                              class |-> "retry", cause |-> lastFetch.err]
    /\ (/\ mode = "combinator"
        /\ pc = "done"
        /\ \A k \in 1..Len(results) : ~DefinitivePass(results[k])
        /\ \E k \in 1..Len(results) : results[k].class = "retry")
          => final = results[FirstRetry(results)]

C7_Witness ==
    /\ mode = "combinator"
    /\ pc = "done"
    /\ Len(results) = 4
    /\ results[1].class = "inconclusive"
    /\ results[2].class = "inconclusive"
    /\ results[4].class = "retry"
    /\ results[4].cause = "transport"
    /\ final = results[4]

\* C8 as stated: ProwCodeReview and CommitMessageHints, once the listing is
\* fetched, apply the scoring rule with threshold 3/4 whenever the eligible
\* population is not empty (also with no positive observation), and return
\* inconclusive only when it is empty.
C8_NonEmptyPopulationIsScored ==
    (Returned /\ Cur \in {"ProwCodeReview", "CommitMessageHints"} /\ ~ListingFailed)
    => IF totalMerged > 0
       THEN /\ scoreCall = ScoreCall(totalReviewed, totalMerged, <<3, 4>>)
            /\ Last(results).class # "inconclusive"
       ELSE Last(results).class = "inconclusive"

\* C8 as amended: ProwCodeReview and CommitMessageHints, once the listing is
\* fetched, apply the scoring rule with threshold 3/4 whenever there is at
\* least one positive observation, and return inconclusive (no reviews
\* found) whenever there is none, be the eligible population empty or not.
C8_PositiveCountIsScored ==
    (Returned /\ Cur \in {"ProwCodeReview", "CommitMessageHints"} /\ ~ListingFailed)
    => IF totalReviewed > 0
       THEN /\ scoreCall = ScoreCall(totalReviewed, totalMerged, <<3, 4>>)
            /\ Last(results).class = "none"
       ELSE /\ ~scoreCall.called
            /\ Last(results) = [pass |-> FALSE, confidence |-> 0,
                                class |-> "inconclusive", cause |-> "no reviews found"]

C8_Witness ==
    /\ Returned
    /\ Cur = "ProwCodeReview"
    /\ ~ListingFailed
    /\ totalMerged = 2
    /\ totalReviewed = 0
    /\ Last(results).class = "inconclusive"

\* The last pull request GithubCodeReview looked at counts as reviewed.
CountsAsReviewed(it) ==
    /\ it.pr.merged
    /\ \/ FoundApprovedReview(it.reviews.states)
       \/ /\ it.commit # NotFetched
          /\ it.commit.author # ""
          /\ it.commit.committer # ""
          /\ it.commit.author # it.commit.committer

\* C9: in GithubCodeReview, while every fetch succeeds, an iteration adds 1
\* to totalMerged iff the pull request is merged and 1 to totalReviewed iff
\* it is merged and has an APPROVED review or a merge commit with non-empty,
\* different author and committer logins; and with at least one merged pull
\* request the Result is a verdict that passes iff
\* totalReviewed / totalMerged >= 3/4.
C9_GithubCountsAndVerdict ==
    /\ [](  (Returned /\ Cur = "GithubCodeReview" /\ ~ListingFailed
                /\ ~fetchFailed /\ totalMerged >= 1)
            => /\ Last(results).class = "none"
               /\ Last(results).pass <=> (4 * totalReviewed >= 3 * totalMerged)
               /\ (totalReviewed = 8 /\ totalMerged = 10) => Last(results).pass
               /\ (totalReviewed = 3 /\ totalMerged = 5) => ~Last(results).pass )
    /\ [][ (pc = "loop" /\ pc' = "loop" /\ Cur = "GithubCodeReview" /\ ~fetchFailed')
            => /\ totalMerged' = totalMerged + (IF item'.pr.merged THEN 1 ELSE 0)
               /\ totalReviewed' =
                     totalReviewed + (IF CountsAsReviewed(item') THEN 1 ELSE 0) ]_vars

C9_Witness ==
    /\ Returned
    /\ Cur = "GithubCodeReview"
    /\ ~fetchFailed
    /\ n = 10
    /\ totalMerged = 10
    /\ totalReviewed = 8
    /\ Last(results).pass

\* C10: in the three sampling heuristics 0 <= totalReviewed <= totalMerged
\* holds throughout, also for the arguments of every call of the scoring
\* rule; an iteration adds at most 1 to either counter; and GithubCodeReview
\* does not fetch the merge commit of a pull request with an APPROVED review.
C10_CountersBounded ==
    /\ [](  /\ 0 <= totalReviewed
            /\ totalReviewed <= totalMerged
            /\ totalMerged <= n
            /\ scoreCall.called =>
                  /\ 0 <= scoreCall.numerator
                  /\ scoreCall.numerator <= scoreCall.denominator
            /\ (item.kind = "github-pr" /\ FoundApprovedReview(item.reviews.states))
                  => item.commit = NotFetched )
    /\ [][ (pc = "loop" /\ pc' = "loop")
            => /\ totalMerged' \in {totalMerged, totalMerged + 1}
               /\ totalReviewed' \in {totalReviewed, totalReviewed + 1} ]_vars

C10_Witness ==
    /\ pc = "loop"
    /\ Cur = "GithubCodeReview"
    /\ item.kind = "github-pr"
    /\ FoundApprovedReview(item.reviews.states)
    /\ totalMerged = 3
    /\ totalReviewed = 3

====
